---- MODULE Spec2Model ----
(***************************************************************************)
(* sundowner: a web service that reports, per calendar day, the UTC        *)
(* instants of civil dawn, sunrise, sunset and civil dusk for an observer. *)
(*                                                                         *)
(* The model follows src/sundowner/__init__.py.  Time is counted in whole  *)
(* hours since 00:00 UTC of day 0; a date is a day number 0..DateMax, the  *)
(* last one standing for datetime.date.max.  The ephem library is outside  *)
(* the repository; its calls are modelled by what they do: an Observer is  *)
(* a mutable record, Sun.compute fixes the sun's declination for the       *)
(* observer's date, and next_rising / next_setting scan forward from the   *)
(* observer's date for the first upward / downward crossing of the         *)
(* observer's horizon, raising a CircumpolarError subclass when the sun    *)
(* stays on one side of it.                                                *)
(***************************************************************************)
EXTENDS Integers, Sequences, FiniteSets, TLC

VARIABLES pc, req, days, times, calls, raised, log, response, obs, direct

vars == <<pc, req, days, times, calls, raised, log, response, obs, direct>>
webVars == <<pc, req, days, times, calls, raised, log, response>>
apiVars == <<obs, direct>>

(* ------------------------------ bounds -------------------------------- *)

\* The last representable date (datetime.date.max), as a day number.
DateMax == 4

\* Hours in a day: the resolution of the model's clock.
HoursPerDay == 24

Dates == 0..DateMax

\* Latitudes and longitudes a client may send, in whole degrees.  95 and
\* 195 lie outside the geographic ranges.
Lats == {-50, 0, 62, 70, 95}
Lons == {-150, 0, 120, 195}

OutputTypes == {"js", "dt", "iso", "xml"}
Recognised == {"js", "dt", "iso"}

Horizons == {"-6", "-0:34"}

\* Clock readings at which an Observer may be constructed.
Nows == {0, 30}

(* ------------------------------ helpers ------------------------------- *)

Abs(x) == IF x < 0 THEN -x ELSE x

SetMin(S) == CHOOSE x \in S : \A y \in S : x <= y

InRange(lat, lon) == lat >= -90 /\ lat <= 90 /\ lon >= -180 /\ lon <= 180

None == [kind |-> "None", day |-> 0, hour |-> 0, ms |-> 0]

\* A Python bool argument, and the str 'True' that is the declared default.
PyTrue == "bool:True"
PyFalse == "bool:False"
DawnDefault == "str:True"

(* ------------------------------- ephem -------------------------------- *)

\* ephem.Observer(): a mutable observer at 0,0 with the horizon at 0 and
\* the date set to the clock.
ephemObserver(now) ==
  [lat |-> 0, lon |-> 0, pressure |-> 1010, horizon |-> 0, date |-> now]

\* Assigning a date to Observer.date: 00:00 UTC of that day.
ephemDate(day) == day * HoursPerDay

\* Assigning an angle string to Observer.horizon: degrees[:minutes], here
\* in arc minutes.
ephemDegrees(s) == CASE s = "-6" -> -360
                     [] s = "-0:34" -> -34
                     [] OTHER -> 0

\* The sun's declination in degrees on a day: the model's year has four
\* days, an equinox, the June solstice, an equinox, the December solstice.
Declination(day) == CASE day % 4 = 1 -> 23
                      [] day % 4 = 3 -> -23
                      [] OTHER -> 0

\* sun.compute(location): the sun's position for the observer's date.
SunCompute(location) == [dec |-> Declination(location.date \div HoursPerDay)]

\* The sun's altitude in arc minutes at instant t: the transit altitude
\* 90 - |lat - dec| at local noon, the antitransit altitude
\* -(90 - |lat + dec|) at local midnight, linear in between.  Nothing
\* restricts lat or lon to the geographic ranges.
SunAlt(location, sun, t) ==
  LET half == HoursPerDay \div 2
      h    == (t + (location.lon * HoursPerDay) \div 360) % HoursPerDay
      k    == Abs(h - half)
      noon == 60 * (90 - Abs(location.lat - sun.dec))
      mid  == -60 * (90 - Abs(location.lat + sun.dec))
  IN  noon - ((noon - mid) * k) \div half

\* The instants a forward search from date looks at: one day's worth,
\* all after date.
PreviousWindow(date) == (date - HoursPerDay)..(date - 1)

SearchWindow(date) == (date + 1)..(date + HoursPerDay)

\* Whether the sun crosses the observer's horizon at t, upward (rising)
\* or downward.
Crossing(location, sun, rising, t) ==
  LET before == SunAlt(location, sun, t - 1)
      after  == SunAlt(location, sun, t)
  IN  IF rising
      THEN before < location.horizon /\ after >= location.horizon
      ELSE before >= location.horizon /\ after < location.horizon

\* Observer.next_rising / next_setting: the first crossing after the
\* observer's date, or AlwaysUpError / NeverUpError.
Riset(location, sun, rising) ==
  LET window == SearchWindow(location.date)
  IN  IF \A t \in window : SunAlt(location, sun, t) >= location.horizon
      THEN [raised |-> "AlwaysUpError", t |-> 0]
      ELSE IF \A t \in window : SunAlt(location, sun, t) < location.horizon
      THEN [raised |-> "NeverUpError", t |-> 0]
      ELSE [raised |-> "none",
            t |-> SetMin({t \in window : Crossing(location, sun, rising, t)})]

next_rising(location, sun) == Riset(location, sun, TRUE)

next_setting(location, sun) == Riset(location, sun, FALSE)

\* The errors `except ephem.CircumpolarError` catches.
CatchesOnlyNeverUp == {"NeverUpError"}

CatchesNothing == {}

CircumpolarError == {"AlwaysUpError", "NeverUpError"}

\* Date.datetime() followed by replace(tzinfo=utc): the UTC calendar day
\* and hour of an instant.
ToDatetime(t) == [day |-> t \div HoursPerDay, hour |-> t % HoursPerDay]

\* datetime.timestamp() * 1000: milliseconds since 00:00 UTC of day 0.
MsPerHour == 60 * 60 * 1000

(* ------------------------- calculate_sunrise -------------------------- *)

\* The rendering of a found instant, or of None, in an output mode.  With
\* an instant and an output_type that no branch matches, output_time is
\* never bound and the return raises UnboundLocalError.
RenderDefaultIso(suntime, output_type) ==
  IF suntime.present
  THEN LET dt == ToDatetime(suntime.t)
       IN  CASE output_type = "js" ->
                  [raised |-> "none",
                   value |-> [kind |-> "js", day |-> 0, hour |-> 0,
                              ms |-> (dt.day * HoursPerDay + dt.hour) * MsPerHour]]
             [] output_type = "dt" ->
                  [raised |-> "none",
                   value |-> [kind |-> "dt", day |-> dt.day, hour |-> dt.hour, ms |-> 0]]
             [] OTHER ->
                  [raised |-> "none",
                   value |-> [kind |-> "iso", day |-> dt.day, hour |-> dt.hour, ms |-> 0]]
  ELSE [raised |-> "none", value |-> None]

Render(suntime, output_type) ==
  IF suntime.present
  THEN LET dt == ToDatetime(suntime.t)
       IN  CASE output_type = "js" ->
                  [raised |-> "none",
                   value |-> [kind |-> "js", day |-> 0, hour |-> 0,
                              ms |-> (dt.day * HoursPerDay + dt.hour) * MsPerHour]]
             [] output_type = "dt" ->
                  [raised |-> "none",
                   value |-> [kind |-> "dt", day |-> dt.day, hour |-> dt.hour, ms |-> 0]]
             [] output_type = "iso" ->
                  [raised |-> "none",
                   value |-> [kind |-> "iso", day |-> dt.day, hour |-> dt.hour, ms |-> 0]]
             [] OTHER -> [raised |-> "UnboundLocalError", value |-> None]
  ELSE [raised |-> "none", value |-> None]

\* location.date = day; location.horizon = horizon.
SetSearchFieldsOnce(location, day, horizon) ==
  [location EXCEPT !.date = ephemDate(day),
                   !.horizon = IF location.horizon = 0
                               THEN ephemDegrees(horizon)
                               ELSE location.horizon]

SetSearchFields(location, day, horizon) ==
  [location EXCEPT !.date = ephemDate(day), !.horizon = ephemDegrees(horizon)]

\* `dawn is True`: only the bool True searches for a rising.
SearchesRising(dawn) == dawn = PyTrue

\* calculate_sunrise(location, day, horizon, dawn, output_type): the
\* observer as the call leaves it, the error it raises ("none" when it
\* returns), the value it returns, and a record of the search it ran.
calculate_sunrise(location, day, horizon, dawn, output_type) ==
  LET loc    == SetSearchFields(location, day, horizon)
      sun    == SunCompute(loc)
      rising == SearchesRising(dawn)
      found  == IF rising THEN next_rising(loc, sun) ELSE next_setting(loc, sun)
      caught == found.raised \in CircumpolarError
      escapes == found.raised # "none" /\ ~caught
      suntime == [present |-> found.raised = "none", t |-> found.t]
      out    == IF escapes
                THEN [raised |-> found.raised, value |-> None]
                ELSE Render(suntime, output_type)
  IN  [location |-> loc,
       raised   |-> out.raised,
       value    |-> out.value,
       rec      |-> [day |-> day, epoch |-> loc.date, horizon |-> loc.horizon,
                     rising |-> rising, search |-> found.raised, t |-> found.t,
                     output_type |-> output_type,
                     raised |-> out.raised, value |-> out.value]]

(* ----------------------------- list_times ----------------------------- *)

\* The events dictionary, in its insertion order.
EventNames == <<"civil_dawn", "sunrise", "sunset", "civil_dusk">>

EventSet == {"civil_dawn", "sunrise", "sunset", "civil_dusk"}

EventHorizon(e) == IF e \in {"civil_dawn", "civil_dusk"} THEN "-6" ELSE "-0:34"

EventDawn(e) == IF e \in {"civil_dawn", "sunrise"} THEN PyTrue ELSE PyFalse

\* The dictionary comprehension: one calculate_sunrise call per event on
\* the one observer, stopping at the first call that raises.
RECURSIVE RunEvents(_, _, _, _, _)
RunEvents(location, day, output_type, names, acc) ==
  IF names = <<>> \/ acc.raised # "none"
  THEN acc
  ELSE LET e == Head(names)
           r == calculate_sunrise(location, day, EventHorizon(e),
                                  EventDawn(e), output_type)
       IN  RunEvents(r.location, day, output_type, Tail(names),
                     [raised   |-> r.raised,
                      output   |-> IF r.raised = "none"
                                   THEN acc.output @@ (e :> r.value)
                                   ELSE acc.output,
                      log      |-> Append(acc.log, r.rec),
                      location |-> r.location])

\* list_times(latitude, longitude, day, output_type) on an Observer
\* constructed at clock reading now.
list_times(latitude, longitude, day, output_type, now) ==
  LET location == [ephemObserver(now) EXCEPT !.lat = latitude,
                                              !.lon = longitude,
                                              !.pressure = 0]
  IN  RunEvents(location, day, output_type, EventNames,
                [raised |-> "none", output |-> <<>>, log |-> <<>>,
                 location |-> location])

(* -------------------------------- sun --------------------------------- *)

\* date.isoformat(): the date as text, YYYY-MM-DD.
isoformat(day) == [format |-> "YYYY-MM-DD", ordinal |-> day]

\* range(n): empty when n <= 0.
PyRangeAbs(n) == 0..(Abs(n) - 1)

PyRange(n) == 0..(n - 1)

\* [start + timedelta(days=i) for i in range(days_range)].
DayList(start, days_range) ==
  [i \in 1..Cardinality(PyRange(days_range)) |-> start + (i - 1)]

NoRequest == [lat |-> 0, lon |-> 0, start |-> 0, end_day |-> {}, end |-> 0,
              output_type |-> "iso"]

NoResponse == [sent |-> FALSE, lat |-> 0, lon |-> 0, days |-> <<>>]

NoDirect == [called |-> FALSE, dawnArg |-> {}, horizonArg |-> "-6",
             rec |-> [day |-> 0, epoch |-> 0, horizon |-> 0, rising |-> FALSE,
                      search |-> "none", t |-> 0, output_type |-> "iso",
                      raised |-> "none", value |-> None]]

Init ==
  /\ pc = "idle"
  /\ req = NoRequest
  /\ days = <<>>
  /\ times = <<>>
  /\ calls = 0
  /\ raised = "none"
  /\ log = <<>>
  /\ response = NoResponse
  /\ obs = ephemObserver(0)
  /\ direct = NoDirect

\* sun(), lines 25-43: the request's parameters, the end date defaulting
\* to the start, and the list of days.  end + timedelta(days=1) raises
\* OverflowError past the last representable date.
Request ==
  /\ pc = "idle"
  /\ \E lat \in Lats, lon \in Lons, start \in Dates,
        end_day \in {{}} \cup {{d} : d \in Dates}, output_type \in OutputTypes :
       LET end == IF end_day = {} THEN start ELSE CHOOSE d \in end_day : TRUE
           days_range == (end + 1) - start
       IN  /\ req' = [lat |-> lat, lon |-> lon, start |-> start,
                      end_day |-> end_day, end |-> end,
                      output_type |-> output_type]
           /\ IF end + 1 > DateMax
              THEN /\ pc' = "error"
                   /\ raised' = "OverflowError"
                   /\ days' = <<>>
              ELSE /\ pc' = "times"
                   /\ raised' = "none"
                   /\ days' = DayList(start, days_range)
  /\ times' = <<>>
  /\ calls' = 0
  /\ log' = <<>>
  /\ response' = NoResponse
  /\ UNCHANGED apiVars

\* sun(), lines 44-49: the next day's entry, from list_times.  An error
\* list_times raises ends the request.
ListTimesStep ==
  /\ pc = "times"
  /\ Len(times) < Len(days)
  /\ \E now \in Nows :
       LET day == days[Len(times) + 1]
           r   == list_times(req.lat, req.lon, day, req.output_type, now)
       IN  /\ calls' = calls + 1
           /\ log' = r.log
           /\ IF r.raised = "none"
              THEN /\ times' = Append(times, [date |-> isoformat(day), events |-> r.output])
                   /\ pc' = "times"
                   /\ raised' = "none"
              ELSE /\ times' = times
                   /\ pc' = "error"
                   /\ raised' = r.raised
  /\ UNCHANGED <<req, days, response>>
  /\ UNCHANGED apiVars

\* sun(), lines 50-51: the JSON response.
Respond ==
  /\ pc = "times"
  /\ Len(times) = Len(days)
  /\ pc' = "done"
  /\ response' = [sent |-> TRUE, lat |-> req.lat, lon |-> req.lon, days |-> times]
  /\ UNCHANGED <<req, days, times, calls, raised, log>>
  /\ UNCHANGED apiVars

\* The handler has returned or failed; its locals are gone and the
\* application waits for the next request.
Return ==
  /\ pc \in {"done", "error"}
  /\ pc' = "idle"
  /\ req' = NoRequest
  /\ days' = <<>>
  /\ times' = <<>>
  /\ calls' = 0
  /\ raised' = "none"
  /\ log' = <<>>
  /\ response' = NoResponse
  /\ UNCHANGED apiVars

Next == Request \/ ListTimesStep \/ Respond \/ Return

Spec == Init /\ [][Next]_vars

(* ------------------- calculate_sunrise called directly ---------------- *)

\* A caller of the module constructs an observer of its own.
NewObserver ==
  /\ \E lat \in Lats, lon \in Lons, now \in Nows :
       obs' = [ephemObserver(now) EXCEPT !.lat = lat, !.lon = lon, !.pressure = 0]
  /\ direct' = NoDirect
  /\ UNCHANGED webVars

\* A caller calls calculate_sunrise on its observer, passing dawn or
\* leaving it to the declared default.
CalcDirect ==
  /\ \E day \in Dates, horizon \in Horizons, output_type \in OutputTypes,
        dawnArg \in {{}, {PyTrue}, {PyFalse}} :
       LET dawn == IF dawnArg = {} THEN DawnDefault ELSE CHOOSE d \in dawnArg : TRUE
           r    == calculate_sunrise(obs, day, horizon, dawn, output_type)
       IN  /\ obs' = r.location
           /\ direct' = [called |-> TRUE, dawnArg |-> dawnArg,
                         horizonArg |-> horizon, rec |-> r.rec]
  /\ UNCHANGED webVars

NextApi == NewObserver \/ CalcDirect

SpecApi == Init /\ [][NextApi]_vars

(* ------------------------------ properties ---------------------------- *)

\* The instant a rendered value stands for, in hours since day 0.
InstantOf(value) ==
  IF value.kind = "js"
  THEN value.ms \div MsPerHour
  ELSE value.day * HoursPerDay + value.hour

\* Whether, over the whole day cycle, the sun stays on one side of the
\* event's threshold at an observer.
SunStaysOneSide(lat, lon, day, e) ==
  LET o == [lat |-> lat, lon |-> lon, pressure |-> 0,
            horizon |-> IF e \in {"civil_dawn", "civil_dusk"} THEN -360 ELSE -34,
            date |-> day * HoursPerDay]
      alts == {SunAlt(o, [dec |-> Declination(day)], t) :
                 t \in (day * HoursPerDay)..(day * HoursPerDay + HoursPerDay - 1)}
  IN  \/ \A a \in alts : a >= o.horizon
      \/ \A a \in alts : a < o.horizon

\* The event as a function of its six arguments alone: the search of an
\* observer that has never been used, rendered.
PureEvent(lat, lon, day, threshold, rising, output_type) ==
  LET o == [lat |-> lat, lon |-> lon, pressure |-> 0,
            horizon |-> threshold, date |-> day * HoursPerDay]
      found == Riset(o, [dec |-> Declination(day)], rising)
  IN  Render([present |-> found.raised = "none", t |-> found.t], output_type).value

AllPresent(events) == \A e \in EventSet : events[e] # None

\* C1: for every in-range observer and every day whose four events are all
\* present, civil_dawn <= sunrise <= sunset <= civil_dusk.
C1_ChronologicalOrder ==
  \A i \in 1..Len(times) :
    LET ev == times[i].events
    IN  (InRange(req.lat, req.lon) /\ AllPresent(ev)) =>
          /\ InstantOf(ev["civil_dawn"]) <= InstantOf(ev["sunrise"])
          /\ InstantOf(ev["sunrise"]) <= InstantOf(ev["sunset"])
          /\ InstantOf(ev["sunset"]) <= InstantOf(ev["civil_dusk"])

C3_OneEntryPerDay ==
  (pc \in {"done", "error"} /\ req.start <= req.end
     /\ req.output_type \in Recognised) =>
    /\ pc = "done"
    /\ response.sent
    /\ Len(response.days) = req.end - req.start + 1
    /\ \A i \in 1..Len(response.days) :
         /\ response.days[i].date.format = "YYYY-MM-DD"
         /\ response.days[i].date.ordinal = req.start + (i - 1)
         /\ DOMAIN response.days[i].events = EventSet

\* C4: a request whose end date lies before its start date yields an empty
\* list of days, raises nothing and never calls list_times.
C4_EmptyWhenEndBeforeStart ==
  (pc # "idle" /\ req.end_day # {} /\ req.end < req.start) =>
    /\ pc \in {"times", "done"}
    /\ raised = "none"
    /\ days = <<>>
    /\ times = <<>>
    /\ calls = 0
    /\ log = <<>>
    /\ pc = "done" => (response.sent /\ response.days = <<>>)

C4_Witness ==
  /\ pc = "done"
  /\ req.end_day # {}
  /\ req.end = req.start - 1
  /\ response.sent
  /\ response.days = <<>>
  /\ calls = 0

\* C5: once list_times has been called with a latitude outside [-90, 90]
\* or a longitude outside [-180, 180] the request has failed, no search
\* has run and there is no entry of events.
C5_OutOfRangeRejected ==
  (calls > 0 /\ ~InRange(req.lat, req.lon)) =>
    /\ pc = "error"
    /\ log = <<>>
    /\ times = <<>>

\* C6: every search of a list_times call starts at 00:00 UTC of the day
\* being computed, and every instant returned is at or after that epoch.
C6_SearchFromDayStart ==
  \A i \in 1..Len(log) :
    /\ calls >= 1
    /\ log[i].day = days[calls]
    /\ log[i].epoch = log[i].day * HoursPerDay
    /\ (log[i].raised = "none" /\ log[i].value # None) =>
         InstantOf(log[i].value) >= log[i].day * HoursPerDay

C6_Witness ==
  /\ Len(log) = 4
  /\ req.start > 0
  /\ req.lon = -150
  /\ \A i \in 1..4 : log[i].value # None /\ InstantOf(log[i].value) > log[i].epoch

\* C7: every event of every entry is the function PureEvent of (latitude,
\* longitude, day, threshold, direction, output mode): nothing an earlier
\* event, day or request left behind enters it.
C7_PureFunctionOfArguments ==
  \A i \in 1..Len(times) : \A e \in EventSet :
    times[i].events[e] =
      PureEvent(req.lat, req.lon, days[i],
                IF e \in {"civil_dawn", "civil_dusk"} THEN -360 ELSE -34,
                e \in {"civil_dawn", "sunrise"}, req.output_type)

C7_Witness ==
  /\ pc = "done"
  /\ Len(times) >= 2
  /\ AllPresent(times[1].events)
  /\ times[1].events["civil_dawn"] # times[1].events["sunrise"]
  /\ times[2].events # times[1].events

C9_RisingWhenTrueOrOmitted ==
  direct.called =>
    (direct.rec.rising <=> direct.dawnArg \in {{}, {PyTrue}})

====
